---- MODULE Spec2Model ----
(***************************************************************************)
(* The collections store of frontend/src/lib/stores/collections.ts:        *)
(* a zustand store caching the /collections list and, per collection id,   *)
(* the /source-connections list, with loading flags, an error string,      *)
(* lifecycle-event subscriptions and a clear operation.                     *)
(*                                                                         *)
(* An async call runs synchronously up to its `await apiClient.get(...)`   *)
(* (the Call* actions) and resumes when the request settles (the Settle*   *)
(* actions).  The awaits on response.json() / response.text() change no    *)
(* store state, so a request stays in `pending` until its body has been    *)
(* read or an error was thrown, and the continuation runs as one step.     *)
(*                                                                         *)
(* The specifications run the same handlers.  Spec records in `last` the   *)
(* operation of every step with what it issued and returned.  SpecGuard    *)
(* records instead in `unguarded` the keys whose in-flight guard was       *)
(* bypassed, and SpecLive is SpecGuard with every request in flight        *)
(* eventually settling.  SpecCalls records in `calls` a pair of successive *)
(* fetchSourceConnections(id) calls without force refresh and what each    *)
(* returned.  SpecTrail records in `trail` what was last written to        *)
(* collections, how the last /collections request settled and what has     *)
(* happened since the last clearCollections().  SpecCalls and SpecTrail    *)
(* run the store's fetch and clear operations (an event delivery is a      *)
(* fetchCollections(true) call per registered listener).                   *)
(***************************************************************************)
EXTENDS Integers, Sequences, FiniteSets, Bags, TLC

\* ------------------------------------------------------------------ bounds
\* Requests that may be in flight at once.
MaxPending == 2
\* Distinct records the backend may put in a payload.
MaxItem == 1
\* Calls of subscribeToEvents().
MaxSubs == 1

\* ------------------------------------------------------------- value sets
\* Collection ids used as keys of sourceConnections / sourceConnectionsLoading.
CollectionIds == {"c1", "c2"}

\* What response.json() resolves to: an array (possibly empty) of records.
Payloads == {<<>>} \cup {<<i>> : i \in 1..MaxItem}

\* The body of a non-ok response, and the message of a thrown error.
ErrorTexts == {"boom"}

\* `null` of the error field; an error message is a non-empty tuple of strings.
Null == <<>>
\* The promise of a call suspended at its await has not resolved.
NoRet == <<>>
\* The promise of a call resolved to v.
Returned(v) == <<v>>
\* The object {}: a record with no key (reading a key gives `undefined`).
EmptyRecord == [id \in {} |-> <<>>]
\* { ...record, [key]: value }
Spread(record, key, value) ==
  [id \in DOMAIN record \cup {key} |-> IF id = key THEN value ELSE record[id]]

COLLECTION_DELETED == "COLLECTION_DELETED"
COLLECTION_CREATED == "COLLECTION_CREATED"
COLLECTION_UPDATED == "COLLECTION_UPDATED"
CollectionEvents == {COLLECTION_DELETED, COLLECTION_CREATED, COLLECTION_UPDATED}

\* Handles of subscribeToEvents() calls (one composite unsubscribe function each).
Handles == 1..MaxSubs

\* The url of the list request; a source-connections request is keyed by its id.
COLLECTIONS_URL == "/collections"
Keys == {COLLECTIONS_URL} \cup CollectionIds

\* How a request settles: ok with a parsed body, a non-ok response whose text
\* was read, or an error thrown by get(), json() or text().
Outcomes ==
  [kind : {"ok"}, data : Payloads, text : {""}]
    \cup [kind : {"http", "throw"}, data : {<<>>}, text : ErrorTexts]

\* ------------------------------------------------------------------ state
VARIABLES
  collections,              \* Collection[]
  isLoading,                \* boolean
  error,                    \* string | null
  sourceConnections,        \* Record<string, SourceConnection[]>
  sourceConnectionsLoading, \* Record<string, boolean>
  pending,                  \* bag of requests in flight (apiClient.get not settled)
  listeners,                \* registered event listeners: <<handle, event>>
  subscribed,               \* handles subscribeToEvents() has returned
  unsubscribed,             \* handles whose unsubscribe function has been called
  last,                     \* Spec: the last operation, what it issued and returned
  calls,                    \* SpecCalls: a pair of calls fetchSourceConnections(id)
  unguarded,                \* SpecGuard: keys whose in-flight guard was bypassed
  trail                     \* SpecTrail: what was issued, settled and cleared last

storeVars == <<collections, isLoading, error, sourceConnections, sourceConnectionsLoading>>
busVars == <<listeners, subscribed, unsubscribed>>
vars == <<collections, isLoading, error, sourceConnections, sourceConnectionsLoading,
          pending, listeners, subscribed, unsubscribed, last, calls, unguarded,
          trail>>

\* The store state and the network as one value, so that a handler is a function.
World ==
  [collections |-> collections, isLoading |-> isLoading, error |-> error,
   sourceConnections |-> sourceConnections,
   sourceConnectionsLoading |-> sourceConnectionsLoading,
   pending |-> pending]

Install(w) ==
  /\ collections' = w.collections
  /\ isLoading' = w.isLoading
  /\ error' = w.error
  /\ sourceConnections' = w.sourceConnections
  /\ sourceConnectionsLoading' = w.sourceConnectionsLoading
  /\ pending' = w.pending

\* A request in flight: the key it fetches and, under SpecCalls, which call of
\* the pair `calls` awaits it (0: none of them).
Request(key, call) == [key |-> key, call |-> call]
RequestsFor(w, key) == {rq \in BagToSet(w.pending) : rq.key = key}
\* The number of requests in flight for a key.
InFlight(w, key) ==
  CopiesIn(Request(key, 0), w.pending) + CopiesIn(Request(key, 1), w.pending)
    + CopiesIn(Request(key, 2), w.pending)
\* apiClient.get(url) is called.
Send(w, key) == [w EXCEPT !.pending = @ (+) SetToBag({Request(key, 0)})]
\* The awaited request rq has settled.
Receive(w, rq) == [w EXCEPT !.pending = @ (-) SetToBag({rq})]

\* JavaScript truthiness of sourceConnections[id]: an array, even [], is truthy.
HasEntry(w, id) == id \in DOMAIN w.sourceConnections
\* JavaScript truthiness of sourceConnectionsLoading[id].
LoadingFlag(w, id) ==
  id \in DOMAIN w.sourceConnectionsLoading /\ w.sourceConnectionsLoading[id]

\* The in-flight flag of a cache key: isLoading for the list,
\* sourceConnectionsLoading[id] for a collection id.
Loading(w, key) ==
  IF key = COLLECTIONS_URL THEN w.isLoading ELSE LoadingFlag(w, key)
\* What a call for a key returns while the flag is set: get().collections,
\* or sourceConnections[id] || [].
Cached(w, key) ==
  IF key = COLLECTIONS_URL THEN w.collections
  ELSE IF HasEntry(w, key) THEN w.sourceConnections[key] ELSE <<>>

\* -------------------------------------------------------- fetchCollections
\* fetchCollections without the isLoading check.
fetchCollections_NoLoadingCheck(w, forceRefresh) ==
  IF Len(w.collections) > 0 /\ ~forceRefresh
  THEN [w |-> w, issued |-> FALSE, ret |-> Returned(w.collections)]
  ELSE [w |-> Send([w EXCEPT !.isLoading = TRUE, !.error = Null], COLLECTIONS_URL),
        issued |-> TRUE, ret |-> NoRet]

\* fetchCollections without the check of the cached sequence.
fetchCollections_NoCacheCheck(w, forceRefresh) ==
  IF w.isLoading /\ ~forceRefresh
  THEN [w |-> w, issued |-> FALSE, ret |-> Returned(w.collections)]
  ELSE [w |-> Send([w EXCEPT !.isLoading = TRUE, !.error = Null], COLLECTIONS_URL),
        issued |-> TRUE, ret |-> NoRet]

\* fetchCollections leaving the error of an earlier call in place.
fetchCollections_KeepsError(w, forceRefresh) ==
  IF Len(w.collections) > 0 /\ ~forceRefresh
  THEN [w |-> w, issued |-> FALSE, ret |-> Returned(w.collections)]
  ELSE IF w.isLoading /\ ~forceRefresh
  THEN [w |-> w, issued |-> FALSE, ret |-> Returned(w.collections)]
  ELSE [w |-> Send([w EXCEPT !.isLoading = TRUE], COLLECTIONS_URL),
        issued |-> TRUE, ret |-> NoRet]

\* The part of fetchCollections before its await: [w: the world after it,
\* issued: whether apiClient.get was called, ret: what the call returned, NoRet
\* while it is suspended].
fetchCollections(w, forceRefresh) ==
  IF Len(w.collections) > 0 /\ ~forceRefresh
  THEN [w |-> w, issued |-> FALSE, ret |-> Returned(w.collections)]
  ELSE IF w.isLoading /\ ~forceRefresh
  THEN [w |-> w, issued |-> FALSE, ret |-> Returned(w.collections)]
  ELSE [w |-> Send([w EXCEPT !.isLoading = TRUE, !.error = Null], COLLECTIONS_URL),
        issued |-> TRUE, ret |-> NoRet]

\* The error strings fetchCollections builds.
FailedToLoad(text) == <<"Failed to load collections: ", text>>
AnErrorOccurred(text) == <<"An error occurred: ", text>>

\* fetchCollectionsSettled with the failure policy of fetchSourceConnections.
fetchCollectionsSettled_ClearsOnFailure(w, rq, o) ==
  LET v == Receive(w, rq) IN
  IF o.kind = "ok"
  THEN [w |-> [v EXCEPT !.collections = o.data, !.isLoading = FALSE],
        ret |-> Returned(o.data)]
  ELSE [w |-> [v EXCEPT !.collections = <<>>, !.error = AnErrorOccurred(o.text),
                        !.isLoading = FALSE],
        ret |-> Returned(<<>>)]

\* fetchCollectionsSettled calling apiClient.get again after a failure.
fetchCollectionsSettled_RetriesOnFailure(w, rq, o) ==
  LET v == Receive(w, rq) IN
  IF o.kind = "ok"
  THEN [w |-> [v EXCEPT !.collections = o.data, !.isLoading = FALSE],
        ret |-> Returned(o.data)]
  ELSE [w |-> Send([v EXCEPT !.error = AnErrorOccurred(o.text)], COLLECTIONS_URL),
        ret |-> NoRet]

\* fetchCollectionsSettled whose catch block only logs the error.
fetchCollectionsSettled_CatchOnlyLogs(w, rq, o) ==
  LET v == Receive(w, rq) IN
  IF o.kind = "ok"
  THEN [w |-> [v EXCEPT !.collections = o.data, !.isLoading = FALSE],
        ret |-> Returned(o.data)]
  ELSE IF o.kind = "http"
  THEN [w |-> [v EXCEPT !.error = FailedToLoad(o.text), !.isLoading = FALSE],
        ret |-> Returned(v.collections)]
  ELSE [w |-> [v EXCEPT !.isLoading = FALSE], ret |-> Returned(v.collections)]

\* fetchCollectionsSettled leaving isLoading set after a failure.
fetchCollectionsSettled_KeepsLoadingOnFailure(w, rq, o) ==
  LET v == Receive(w, rq) IN
  IF o.kind = "ok"
  THEN [w |-> [v EXCEPT !.collections = o.data, !.isLoading = FALSE],
        ret |-> Returned(o.data)]
  ELSE IF o.kind = "http"
  THEN [w |-> [v EXCEPT !.error = FailedToLoad(o.text)], ret |-> Returned(v.collections)]
  ELSE [w |-> [v EXCEPT !.error = AnErrorOccurred(o.text)], ret |-> Returned(v.collections)]

\* fetchCollectionsSettled appending the response to the cached sequence.
fetchCollectionsSettled_Merges(w, rq, o) ==
  LET v == Receive(w, rq) IN
  IF o.kind = "ok"
  THEN [w |-> [v EXCEPT !.collections = @ \o o.data, !.isLoading = FALSE],
        ret |-> Returned(o.data)]
  ELSE IF o.kind = "http"
  THEN [w |-> [v EXCEPT !.error = FailedToLoad(o.text), !.isLoading = FALSE],
        ret |-> Returned(v.collections)]
  ELSE [w |-> [v EXCEPT !.error = AnErrorOccurred(o.text), !.isLoading = FALSE],
        ret |-> Returned(v.collections)]

\* The part of fetchCollections after its await, for a request that settled as o.
fetchCollectionsSettled(w, rq, o) ==
  LET v == Receive(w, rq) IN
  IF o.kind = "ok"
  THEN [w |-> [v EXCEPT !.collections = o.data, !.isLoading = FALSE],
        ret |-> Returned(o.data)]
  ELSE IF o.kind = "http"
  THEN [w |-> [v EXCEPT !.error = FailedToLoad(o.text), !.isLoading = FALSE],
        ret |-> Returned(v.collections)]
  ELSE [w |-> [v EXCEPT !.error = AnErrorOccurred(o.text), !.isLoading = FALSE],
        ret |-> Returned(v.collections)]

\* -------------------------------------------------- fetchSourceConnections
\* fetchSourceConnections without the sourceConnectionsLoading check.
fetchSourceConnections_NoLoadingCheck(w, collectionId, forceRefresh) ==
  IF HasEntry(w, collectionId) /\ ~forceRefresh
  THEN [w |-> w, issued |-> FALSE, ret |-> Returned(w.sourceConnections[collectionId])]
  ELSE [w |-> Send([w EXCEPT !.sourceConnectionsLoading = Spread(@, collectionId, TRUE)],
                   collectionId),
        issued |-> TRUE, ret |-> NoRet]

\* fetchSourceConnections returning [] instead of the cached entry.
fetchSourceConnections_HitReturnsEmpty(w, collectionId, forceRefresh) ==
  IF HasEntry(w, collectionId) /\ ~forceRefresh
  THEN [w |-> w, issued |-> FALSE, ret |-> Returned(<<>>)]
  ELSE IF LoadingFlag(w, collectionId)
  THEN [w |-> w, issued |-> FALSE,
        ret |-> Returned(IF HasEntry(w, collectionId)
                         THEN w.sourceConnections[collectionId] ELSE <<>>)]
  ELSE [w |-> Send([w EXCEPT !.sourceConnectionsLoading = Spread(@, collectionId, TRUE)],
                   collectionId),
        issued |-> TRUE, ret |-> NoRet]

\* fetchSourceConnections ignoring forceRefresh.
fetchSourceConnections_ForceIgnored(w, collectionId, forceRefresh) ==
  IF HasEntry(w, collectionId)
  THEN [w |-> w, issued |-> FALSE, ret |-> Returned(w.sourceConnections[collectionId])]
  ELSE IF LoadingFlag(w, collectionId)
  THEN [w |-> w, issued |-> FALSE, ret |-> Returned(<<>>)]
  ELSE [w |-> Send([w EXCEPT !.sourceConnectionsLoading = Spread(@, collectionId, TRUE)],
                   collectionId),
        issued |-> TRUE, ret |-> NoRet]

\* fetchSourceConnections held back by the loading flag of any id.
fetchSourceConnections_AnyLoadingCheck(w, collectionId, forceRefresh) ==
  IF HasEntry(w, collectionId) /\ ~forceRefresh
  THEN [w |-> w, issued |-> FALSE, ret |-> Returned(w.sourceConnections[collectionId])]
  ELSE IF \E id \in CollectionIds : LoadingFlag(w, id)
  THEN [w |-> w, issued |-> FALSE,
        ret |-> Returned(IF HasEntry(w, collectionId)
                         THEN w.sourceConnections[collectionId] ELSE <<>>)]
  ELSE [w |-> Send([w EXCEPT !.sourceConnectionsLoading = Spread(@, collectionId, TRUE)],
                   collectionId),
        issued |-> TRUE, ret |-> NoRet]

\* fetchSourceConnections returning [] while loading, whatever is cached.
fetchSourceConnections_LoadingReturnsEmpty(w, collectionId, forceRefresh) ==
  IF HasEntry(w, collectionId) /\ ~forceRefresh
  THEN [w |-> w, issued |-> FALSE, ret |-> Returned(w.sourceConnections[collectionId])]
  ELSE IF LoadingFlag(w, collectionId)
  THEN [w |-> w, issued |-> FALSE, ret |-> Returned(<<>>)]
  ELSE [w |-> Send([w EXCEPT !.sourceConnectionsLoading = Spread(@, collectionId, TRUE)],
                   collectionId),
        issued |-> TRUE, ret |-> NoRet]

\* The part of fetchSourceConnections before its await.
fetchSourceConnections(w, collectionId, forceRefresh) ==
  IF HasEntry(w, collectionId) /\ ~forceRefresh
  THEN [w |-> w, issued |-> FALSE, ret |-> Returned(w.sourceConnections[collectionId])]
  ELSE IF LoadingFlag(w, collectionId)
  THEN [w |-> w, issued |-> FALSE,
        ret |-> Returned(IF HasEntry(w, collectionId)
                         THEN w.sourceConnections[collectionId] ELSE <<>>)]
  ELSE [w |-> Send([w EXCEPT !.sourceConnectionsLoading = Spread(@, collectionId, TRUE)],
                   collectionId),
        issued |-> TRUE, ret |-> NoRet]

\* fetchSourceConnectionsSettled with the failure policy of fetchCollections.
fetchSourceConnectionsSettled_KeepsOnFailure(w, rq, o) ==
  LET v == Receive(w, rq)
      collectionId == rq.key IN
  IF o.kind = "ok"
  THEN [w |-> [v EXCEPT !.sourceConnections = Spread(@, collectionId, o.data),
                        !.sourceConnectionsLoading = Spread(@, collectionId, FALSE)],
        ret |-> Returned(o.data)]
  ELSE [w |-> [v EXCEPT !.sourceConnectionsLoading = Spread(@, collectionId, FALSE)],
        ret |-> Returned(IF HasEntry(v, collectionId)
                         THEN v.sourceConnections[collectionId] ELSE <<>>)]

\* fetchSourceConnectionsSettled reporting a failure in the error field.
fetchSourceConnectionsSettled_SetsError(w, rq, o) ==
  LET v == Receive(w, rq)
      collectionId == rq.key IN
  IF o.kind = "ok"
  THEN [w |-> [v EXCEPT !.sourceConnections = Spread(@, collectionId, o.data),
                        !.sourceConnectionsLoading = Spread(@, collectionId, FALSE)],
        ret |-> Returned(o.data)]
  ELSE [w |-> [v EXCEPT !.sourceConnections = Spread(@, collectionId, <<>>),
                        !.sourceConnectionsLoading = Spread(@, collectionId, FALSE),
                        !.error = AnErrorOccurred(o.text)],
        ret |-> Returned(<<>>)]

\* fetchSourceConnectionsSettled leaving the loading flag set after a failure.
fetchSourceConnectionsSettled_KeepsLoadingOnFailure(w, rq, o) ==
  LET v == Receive(w, rq)
      collectionId == rq.key IN
  IF o.kind = "ok"
  THEN [w |-> [v EXCEPT !.sourceConnections = Spread(@, collectionId, o.data),
                        !.sourceConnectionsLoading = Spread(@, collectionId, FALSE)],
        ret |-> Returned(o.data)]
  ELSE [w |-> [v EXCEPT !.sourceConnections = Spread(@, collectionId, <<>>)],
        ret |-> Returned(<<>>)]

\* The part of fetchSourceConnections after its await, for the request rq settled as o.
fetchSourceConnectionsSettled(w, rq, o) ==
  LET v == Receive(w, rq)
      collectionId == rq.key IN
  IF o.kind = "ok"
  THEN [w |-> [v EXCEPT !.sourceConnections = Spread(@, collectionId, o.data),
                        !.sourceConnectionsLoading = Spread(@, collectionId, FALSE)],
        ret |-> Returned(o.data)]
  ELSE [w |-> [v EXCEPT !.sourceConnections = Spread(@, collectionId, <<>>),
                        !.sourceConnectionsLoading = Spread(@, collectionId, FALSE)],
        ret |-> Returned(<<>>)]

\* --------------------------------------------------------- clearCollections
\* clearCollections leaving isLoading as it is.
clearCollections_KeepsLoading(w) ==
  [w EXCEPT !.collections = <<>>, !.error = Null,
            !.sourceConnections = EmptyRecord,
            !.sourceConnectionsLoading = EmptyRecord]

\* clearCollections leaving the source-connection entries in place.
clearCollections_KeepsSourceConnections(w) ==
  [w EXCEPT !.collections = <<>>, !.isLoading = FALSE, !.error = Null,
            !.sourceConnectionsLoading = EmptyRecord]

clearCollections(w) ==
  [w EXCEPT !.collections = <<>>, !.isLoading = FALSE, !.error = Null,
            !.sourceConnections = EmptyRecord,
            !.sourceConnectionsLoading = EmptyRecord]

\* -------------------------------------------------------- subscribeToEvents
\* onCollectionEvent(event, callback) of @/lib/events, for the subscription h.
onCollectionEvent(ls, h, event) == ls \cup {<<h, event>>}
\* The unsubscribe function onCollectionEvent returned.
offCollectionEvent(ls, h, event) == ls \ {<<h, event>>}

subscribeToEvents(ls, h) ==
  onCollectionEvent(
    onCollectionEvent(
      onCollectionEvent(ls, h, COLLECTION_DELETED), h, COLLECTION_CREATED),
    h, COLLECTION_UPDATED)

\* unsubscribe without the call of unsubscribeUpdated().
unsubscribe_KeepsUpdated(ls, h) ==
  offCollectionEvent(
    offCollectionEvent(ls, h, COLLECTION_DELETED), h, COLLECTION_CREATED)

\* The function subscribeToEvents returned.
unsubscribe(ls, h) ==
  offCollectionEvent(
    offCollectionEvent(
      offCollectionEvent(ls, h, COLLECTION_DELETED), h, COLLECTION_CREATED),
    h, COLLECTION_UPDATED)

\* The callbacks subscribeToEvents registers, one per event.
listener(w, event) ==
  IF event = COLLECTION_DELETED THEN fetchCollections(w, TRUE).w
  ELSE IF event = COLLECTION_CREATED THEN fetchCollections(w, TRUE).w
  ELSE fetchCollections(w, TRUE).w

ListenersOf(ls, event) == {h \in Handles : <<h, event>> \in ls}

\* The event bus calls, one after the other, the n callbacks registered for event.
RECURSIVE deliver(_, _, _)
deliver(w, event, n) == IF n = 0 THEN w ELSE deliver(listener(w, event), event, n - 1)

\* ------------------------------------------------------------------- steps
\* The handlers as steps of the store, the network and the event bus.
Init0 ==
  /\ collections = <<>>
  /\ isLoading = FALSE
  /\ error = Null
  /\ sourceConnections = EmptyRecord
  /\ sourceConnectionsLoading = EmptyRecord
  /\ pending = EmptyBag
  /\ listeners = {}
  /\ subscribed = {}
  /\ unsubscribed = {}

StepFetchCollections(forceRefresh) ==
  LET r == fetchCollections(World, forceRefresh) IN
  /\ BagCardinality(r.w.pending) <= MaxPending
  /\ Install(r.w)
  /\ UNCHANGED busVars

StepCollectionsSettled(rq, o) ==
  /\ rq \in RequestsFor(World, COLLECTIONS_URL)
  /\ Install(fetchCollectionsSettled(World, rq, o).w)
  /\ UNCHANGED busVars

StepFetchSourceConnections(collectionId, forceRefresh) ==
  LET r == fetchSourceConnections(World, collectionId, forceRefresh) IN
  /\ BagCardinality(r.w.pending) <= MaxPending
  /\ Install(r.w)
  /\ UNCHANGED busVars

StepSourceConnectionsSettled(rq, o) ==
  /\ rq \in RequestsFor(World, rq.key)
  /\ rq.key \in CollectionIds
  /\ Install(fetchSourceConnectionsSettled(World, rq, o).w)
  /\ UNCHANGED busVars

StepSubscribeToEvents(h) ==
  /\ h = Cardinality(subscribed) + 1
  /\ listeners' = subscribeToEvents(listeners, h)
  /\ subscribed' = subscribed \cup {h}
  /\ UNCHANGED <<storeVars, pending, unsubscribed>>

StepUnsubscribe(h) ==
  /\ h \in subscribed \ unsubscribed
  /\ listeners' = unsubscribe(listeners, h)
  /\ unsubscribed' = unsubscribed \cup {h}
  /\ UNCHANGED <<storeVars, pending, subscribed>>

\* The event bus delivers a lifecycle event to the callbacks registered for it.
StepEmit(event) ==
  LET w == deliver(World, event, Cardinality(ListenersOf(listeners, event))) IN
  /\ BagCardinality(w.pending) <= MaxPending
  /\ Install(w)
  /\ UNCHANGED busVars

StepClearCollections ==
  /\ Install(clearCollections(World))
  /\ UNCHANGED busVars

\* -------------------------------------------------- Spec: the operation log
Op(op, key, force, failed, issued, ret) ==
  [op |-> op, key |-> key, force |-> force, failed |-> failed,
   issued |-> issued, ret |-> ret]

NoOp == Op("create", COLLECTIONS_URL, FALSE, FALSE, 0, NoRet)

historyVars == <<calls, unguarded, trail>>
\* No pair of calls is open.
NoCalls == [n |-> 0, id |-> "", miss |-> FALSE, reqs |-> 0,
            r1 |-> NoRet, r2 |-> NoRet, quiet |-> FALSE]

\* Nothing has been issued, settled or cleared.
NoTrail == [written |-> <<>>, settled |-> "none", failed |-> FALSE,
            cleared |-> FALSE, started |-> FALSE, landed |-> FALSE]

Init ==
  /\ Init0
  /\ last = NoOp
  /\ calls = NoCalls
  /\ unguarded = {}
  /\ trail = NoTrail

FetchCollections(forceRefresh) ==
  /\ StepFetchCollections(forceRefresh)
  /\ LET r == fetchCollections(World, forceRefresh) IN
       last' = Op("fetchCollections", COLLECTIONS_URL, forceRefresh, FALSE,
                  IF r.issued THEN 1 ELSE 0, r.ret)
  /\ UNCHANGED historyVars

CollectionsSettled(rq, o) ==
  /\ StepCollectionsSettled(rq, o)
  /\ last' = Op("collectionsSettled", COLLECTIONS_URL, FALSE, o.kind # "ok", 0,
                fetchCollectionsSettled(World, rq, o).ret)
  /\ UNCHANGED historyVars

FetchSourceConnections(collectionId, forceRefresh) ==
  /\ StepFetchSourceConnections(collectionId, forceRefresh)
  /\ LET r == fetchSourceConnections(World, collectionId, forceRefresh) IN
       last' = Op("fetchSourceConnections", collectionId, forceRefresh, FALSE,
                  IF r.issued THEN 1 ELSE 0, r.ret)
  /\ UNCHANGED historyVars

SourceConnectionsSettled(rq, o) ==
  /\ StepSourceConnectionsSettled(rq, o)
  /\ last' = Op("sourceConnectionsSettled", rq.key, FALSE, o.kind # "ok", 0,
                fetchSourceConnectionsSettled(World, rq, o).ret)
  /\ UNCHANGED historyVars

SubscribeToEvents(h) ==
  /\ StepSubscribeToEvents(h)
  /\ last' = Op("subscribeToEvents", COLLECTIONS_URL, FALSE, FALSE, 0, NoRet)
  /\ UNCHANGED historyVars

Unsubscribe(h) ==
  /\ StepUnsubscribe(h)
  /\ last' = Op("unsubscribe", COLLECTIONS_URL, FALSE, FALSE, 0, NoRet)
  /\ UNCHANGED historyVars

Emit(event) ==
  /\ StepEmit(event)
  /\ last' = Op("emit", COLLECTIONS_URL, TRUE, FALSE,
                InFlight(World, COLLECTIONS_URL)' - InFlight(World, COLLECTIONS_URL),
                NoRet)
  /\ UNCHANGED historyVars

ClearCollections ==
  /\ StepClearCollections
  /\ last' = Op("clearCollections", COLLECTIONS_URL, FALSE, FALSE, 0, NoRet)
  /\ UNCHANGED historyVars

Next ==
  \/ \E f \in BOOLEAN : FetchCollections(f)
  \/ \E rq \in BagToSet(pending), o \in Outcomes : CollectionsSettled(rq, o)
  \/ \E id \in CollectionIds, f \in BOOLEAN : FetchSourceConnections(id, f)
  \/ \E rq \in BagToSet(pending), o \in Outcomes : SourceConnectionsSettled(rq, o)
  \/ \E h \in Handles : SubscribeToEvents(h)
  \/ \E h \in Handles : Unsubscribe(h)
  \/ \E e \in CollectionEvents : Emit(e)
  \/ ClearCollections

Spec == Init /\ [][Next]_vars

\* ------------------------------------- SpecGuard: the keys left unguarded
\* unguarded: the keys for which, since the key last had no request in flight,
\* a forced fetchCollections issued a request while one was in flight, or
\* clearCollections() ran while one was in flight.

\* The keys of u that still have a request in flight.
StillInFlight(u, w) == {k \in u : InFlight(w, k) > 0}

GuardFetchCollections(forceRefresh) ==
  /\ StepFetchCollections(forceRefresh)
  /\ unguarded' =
       IF fetchCollections(World, forceRefresh).issued
            /\ InFlight(World, COLLECTIONS_URL) > 0 /\ forceRefresh
       THEN unguarded \cup {COLLECTIONS_URL} ELSE unguarded
  /\ UNCHANGED <<last, calls, trail>>

GuardCollectionsSettled(rq, o) ==
  /\ StepCollectionsSettled(rq, o)
  /\ unguarded' = StillInFlight(unguarded, fetchCollectionsSettled(World, rq, o).w)
  /\ UNCHANGED <<last, calls, trail>>

GuardFetchSourceConnections(collectionId, forceRefresh) ==
  /\ StepFetchSourceConnections(collectionId, forceRefresh)
  /\ UNCHANGED <<last, calls, unguarded, trail>>

GuardSourceConnectionsSettled(rq, o) ==
  /\ StepSourceConnectionsSettled(rq, o)
  /\ unguarded' =
       StillInFlight(unguarded, fetchSourceConnectionsSettled(World, rq, o).w)
  /\ UNCHANGED <<last, calls, trail>>

GuardSubscribeToEvents(h) ==
  /\ StepSubscribeToEvents(h)
  /\ UNCHANGED <<last, calls, unguarded, trail>>

GuardUnsubscribe(h) ==
  /\ StepUnsubscribe(h)
  /\ UNCHANGED <<last, calls, unguarded, trail>>

GuardEmit(event) ==
  /\ StepEmit(event)
  /\ unguarded' =
       IF InFlight(World, COLLECTIONS_URL)' > InFlight(World, COLLECTIONS_URL)
            /\ InFlight(World, COLLECTIONS_URL)' > 1
       THEN unguarded \cup {COLLECTIONS_URL} ELSE unguarded
  /\ UNCHANGED <<last, calls, trail>>

GuardClearCollections ==
  /\ StepClearCollections
  /\ unguarded' = unguarded \cup {k \in Keys : InFlight(World, k) > 0}
  /\ UNCHANGED <<last, calls, trail>>

NextGuard ==
  \/ \E f \in BOOLEAN : GuardFetchCollections(f)
  \/ \E rq \in BagToSet(pending), o \in Outcomes : GuardCollectionsSettled(rq, o)
  \/ \E id \in CollectionIds, f \in BOOLEAN : GuardFetchSourceConnections(id, f)
  \/ \E rq \in BagToSet(pending), o \in Outcomes : GuardSourceConnectionsSettled(rq, o)
  \/ \E h \in Handles : GuardSubscribeToEvents(h)
  \/ \E h \in Handles : GuardUnsubscribe(h)
  \/ \E e \in CollectionEvents : GuardEmit(e)
  \/ GuardClearCollections

SpecGuard == Init /\ [][NextGuard]_vars

\* ------------------------------------- SpecLive: the network answers
\* Every request in flight eventually settles: the continuation of a call runs
\* on the event loop once the promise of apiClient.get has settled.
Settles ==
  /\ WF_vars(\E rq \in BagToSet(pending), o \in Outcomes : GuardCollectionsSettled(rq, o))
  /\ \A id \in CollectionIds :
       WF_vars(\E rq \in RequestsFor(World, id), o \in Outcomes :
                 GuardSourceConnectionsSettled(rq, o))

SpecLive == Init /\ [][NextGuard]_vars /\ Settles

\* -------------------------------------------- SpecCalls: the pair of calls
\* calls: a pair of successive calls fetchSourceConnections(id), both without
\* force refresh.  n: how many of the two have been made; miss: the first found
\* neither an entry nor a loading flag for id; reqs: the requests the two issued;
\* r1, r2: what each returned; quiet: the second started after the first had
\* returned, and no request for id settled in between.  clearCollections() closes
\* the pair, and a new pair opens with the next call once a pair is complete.
Complete(c) == c.n = 2 /\ c.r1 # NoRet /\ c.r2 # NoRet

\* The request a call of the pair has just issued is tagged with the call.
Retag(w, key, call) ==
  IF call = 0 THEN w
  ELSE [w EXCEPT !.pending =
          (@ (-) SetToBag({Request(key, 0)})) (+) SetToBag({Request(key, call)})]

\* The requests in flight are not cancelled when the pair is closed.
Untag(w) ==
  [w EXCEPT !.pending =
     [rq \in {Request(x.key, 0) : x \in BagToSet(w.pending)} |-> InFlight(w, rq.key)]]

PairFetchCollections(forceRefresh) ==
  /\ StepFetchCollections(forceRefresh)
  /\ UNCHANGED <<last, calls, unguarded, trail>>

PairCollectionsSettled(rq, o) ==
  /\ StepCollectionsSettled(rq, o)
  /\ UNCHANGED <<last, calls, unguarded, trail>>

PairFetchSourceConnections(collectionId, forceRefresh) ==
  LET r == fetchSourceConnections(World, collectionId, forceRefresh)
      first == ~forceRefresh /\ (calls.n = 0 \/ Complete(calls))
      second == ~forceRefresh /\ ~first /\ calls.n = 1 /\ calls.id = collectionId
      call == IF ~r.issued THEN 0 ELSE IF first THEN 1 ELSE IF second THEN 2 ELSE 0
  IN
  /\ BagCardinality(r.w.pending) <= MaxPending
  /\ Install(Retag(r.w, collectionId, call))
  /\ calls' =
       IF first
       THEN [n |-> 1, id |-> collectionId, miss |-> r.issued,
             reqs |-> IF r.issued THEN 1 ELSE 0,
             r1 |-> r.ret, r2 |-> NoRet, quiet |-> TRUE]
       ELSE IF second
       THEN [calls EXCEPT !.n = 2, !.reqs = @ + (IF r.issued THEN 1 ELSE 0),
                          !.r2 = r.ret, !.quiet = @ /\ calls.r1 # NoRet]
       ELSE calls
  /\ UNCHANGED <<busVars, last, unguarded, trail>>

PairSourceConnectionsSettled(rq, o) ==
  /\ StepSourceConnectionsSettled(rq, o)
  /\ calls' =
       IF rq.call = 1
       THEN [calls EXCEPT !.r1 = fetchSourceConnectionsSettled(World, rq, o).ret]
       ELSE IF rq.call = 2
       THEN [calls EXCEPT !.r2 = fetchSourceConnectionsSettled(World, rq, o).ret]
       ELSE IF calls.n = 1 /\ calls.id = rq.key /\ calls.r1 # NoRet
       THEN [calls EXCEPT !.quiet = FALSE]
       ELSE calls
  /\ UNCHANGED <<last, unguarded, trail>>

PairClearCollections ==
  /\ Install(Untag(clearCollections(World)))
  /\ calls' = NoCalls
  /\ UNCHANGED <<busVars, last, unguarded, trail>>

NextCalls ==
  \/ \E f \in BOOLEAN : PairFetchCollections(f)
  \/ \E rq \in BagToSet(pending), o \in Outcomes : PairCollectionsSettled(rq, o)
  \/ \E id \in CollectionIds, f \in BOOLEAN : PairFetchSourceConnections(id, f)
  \/ \E rq \in BagToSet(pending), o \in Outcomes : PairSourceConnectionsSettled(rq, o)
  \/ PairClearCollections

SpecCalls == Init /\ [][NextCalls]_vars

\* ------------------------------------ SpecTrail: issued, settled, cleared
\* trail: written, the payload of the most recent successful /collections
\* settlement, empty initially and after clearCollections(); settled, how the
\* most recently settled /collections request settled; failed, a /collections
\* request has failed since a /collections request was last issued or the store
\* was last cleared; cleared, clearCollections() has run; started, a call has
\* issued a request since the last clear; landed, a request has settled since
\* the last clear.  The event deliveries are fetchCollections(true) calls.
TrailFetchCollections(forceRefresh) ==
  /\ StepFetchCollections(forceRefresh)
  /\ trail' = IF fetchCollections(World, forceRefresh).issued
               THEN [trail EXCEPT !.failed = FALSE, !.started = TRUE]
               ELSE trail
  /\ UNCHANGED <<last, calls, unguarded>>

TrailCollectionsSettled(rq, o) ==
  /\ StepCollectionsSettled(rq, o)
  /\ trail' = [trail EXCEPT !.written = IF o.kind = "ok" THEN o.data ELSE @,
                             !.settled = IF o.kind = "ok" THEN "ok" ELSE "failed",
                             !.failed = @ \/ o.kind # "ok",
                             !.landed = TRUE]
  /\ UNCHANGED <<last, calls, unguarded>>

TrailFetchSourceConnections(collectionId, forceRefresh) ==
  /\ StepFetchSourceConnections(collectionId, forceRefresh)
  /\ trail' = IF fetchSourceConnections(World, collectionId, forceRefresh).issued
               THEN [trail EXCEPT !.started = TRUE]
               ELSE trail
  /\ UNCHANGED <<last, calls, unguarded>>

TrailSourceConnectionsSettled(rq, o) ==
  /\ StepSourceConnectionsSettled(rq, o)
  /\ trail' = [trail EXCEPT !.landed = TRUE]
  /\ UNCHANGED <<last, calls, unguarded>>

TrailClearCollections ==
  /\ StepClearCollections
  /\ trail' = [trail EXCEPT !.written = <<>>, !.failed = FALSE, !.cleared = TRUE,
                             !.started = FALSE, !.landed = FALSE]
  /\ UNCHANGED <<last, calls, unguarded>>

NextTrail ==
  \/ \E f \in BOOLEAN : TrailFetchCollections(f)
  \/ \E rq \in BagToSet(pending), o \in Outcomes : TrailCollectionsSettled(rq, o)
  \/ \E id \in CollectionIds, f \in BOOLEAN : TrailFetchSourceConnections(id, f)
  \/ \E rq \in BagToSet(pending), o \in Outcomes : TrailSourceConnectionsSettled(rq, o)
  \/ TrailClearCollections

SpecTrail == Init /\ [][NextTrail]_vars

\* ------------------------------------------------------------------ claims

\* C1 (as stated): at every moment at most one request is in flight per cache
\* key, over every interleaving of fetches (forced or not), event deliveries
\* and clearCollections.
C1_AtMostOneInFlight ==
  \A k \in Keys : InFlight(World, k) <= 1

\* C1 (amended): at every moment at most one request is in flight for every
\* cache key whose guard has not been bypassed, that is for every key for which,
\* since it last had no request in flight, no forced fetchCollections issued a
\* request while one was in flight and no clearCollections() ran while one was
\* in flight.
C1_AtMostOneInFlightWhileGuarded ==
  \A k \in Keys \ unguarded : InFlight(World, k) <= 1

\* A /collections request and a source-connections request in flight together,
\* both guarded by their loading flags.
C1_Witness ==
  /\ unguarded = {}
  /\ InFlight(World, COLLECTIONS_URL) = 1 /\ isLoading
  /\ \E id \in CollectionIds : InFlight(World, id) = 1 /\ LoadingFlag(World, id)

\* C2: whenever the cached collections sequence is non-empty, a call
\* fetchCollections(false) issues no request, returns exactly the cached
\* sequence and leaves the whole store state unchanged.
C2_CachedFetchIsNoOp ==
  [][(last'.op = "fetchCollections" /\ ~last'.force /\ Len(collections) > 0)
       => /\ last'.issued = 0
          /\ last'.ret = Returned(collections)
          /\ UNCHANGED <<storeVars, pending>>]_vars

\* fetchCollections(false) has answered from a non-empty cache while a forced
\* refresh was in flight.
C2_Witness ==
  /\ last.op = "fetchCollections" /\ ~last.force /\ last.issued = 0
  /\ Len(collections) > 0 /\ last.ret = Returned(collections)
  /\ isLoading /\ InFlight(World, COLLECTIONS_URL) = 1

\* C3 (as stated): while a collections fetch is in flight, a fetchCollections(false)
\* call issues no further request: a call that issues one finds none in flight.
C3_NoRequestWhileInFlight ==
  (last.op = "fetchCollections" /\ ~last.force /\ last.issued = 1)
    => InFlight(World, COLLECTIONS_URL) = 1

\* C3 (amended): while isLoading is true, every fetchCollections(false) call
\* issues no request, returns the currently cached (possibly empty) sequence
\* immediately and changes nothing.
C3_NoRequestWhileLoading ==
  [][(last'.op = "fetchCollections" /\ ~last'.force /\ isLoading)
       => /\ last'.issued = 0
          /\ last'.ret = Returned(collections)
          /\ UNCHANGED <<storeVars, pending>>]_vars

\* fetchCollections(false) has returned the empty cache while the one request
\* was in flight.
C3_Witness ==
  /\ last.op = "fetchCollections" /\ ~last.force /\ last.issued = 0
  /\ collections = <<>> /\ last.ret = Returned(<<>>)
  /\ isLoading /\ InFlight(World, COLLECTIONS_URL) = 1

\* C4: when the /collections request of a call fails, the cached sequence is
\* left unchanged, error is set to a non-null message, isLoading is set to
\* false and the call returns the cached sequence.
C4_FailureKeepsCollections ==
  [][(last'.op = "collectionsSettled" /\ last'.failed)
       => /\ collections' = collections
          /\ error' # Null
          /\ isLoading' = FALSE
          /\ last'.ret = Returned(collections)]_vars

\* A failed refresh has returned the non-empty cache.
C4_Witness ==
  /\ last.op = "collectionsSettled" /\ last.failed
  /\ Len(collections) > 0 /\ last.ret = Returned(collections)
  /\ error # Null /\ ~isLoading

\* C5: two successive fetchSourceConnections(id) calls without force refresh,
\* with no clearCollections between them, the first of which finds id neither
\* cached nor loading, cause exactly one request for id: whether the second
\* starts after the first has settled or while it is in flight, and however
\* the request settles.
C5_TwoCallsOneRequest ==
  (calls.n = 2 /\ calls.miss) => calls.reqs = 1

\* The second call was made while the first was in flight, and the request
\* then failed or came back empty.
C5_Witness ==
  /\ Complete(calls) /\ calls.miss /\ calls.reqs = 1
  /\ ~calls.quiet /\ calls.r1 = Returned(<<>>)

\* C6 (as stated): the second of two fetchSourceConnections(id) calls without
\* force refresh returns the same sequence as the first.
C6_SecondReturnsSame ==
  Complete(calls) => calls.r1 = calls.r2

\* C6 (amended): the second call returns the same sequence as the first when it
\* starts after the first has returned and neither a request for id has settled
\* nor clearCollections() has run in between.
C6_SecondReturnsSameWhenQuiet ==
  (Complete(calls) /\ calls.quiet) => calls.r1 = calls.r2

\* The first call fetched a non-empty sequence and the second returned it.
C6_Witness ==
  /\ Complete(calls) /\ calls.quiet /\ calls.miss
  /\ calls.r1 # Returned(<<>>) /\ calls.r2 = calls.r1

\* C7 (as stated): a call fetchSourceConnections(id, true) always issues a new
\* request for id.
C7_ForcedAlwaysIssues ==
  (last.op = "fetchSourceConnections" /\ last.force) => last.issued = 1

\* C7 (amended): a call fetchSourceConnections(id, true) issues a new request
\* for id, cached or not, exactly when sourceConnectionsLoading[id] is not true;
\* while it is true the call issues none and changes nothing.
C7_ForcedIssuesUnlessLoading ==
  [][\A id \in CollectionIds :
       (last'.op = "fetchSourceConnections" /\ last'.force /\ last'.key = id)
         => IF LoadingFlag(World, id)
            THEN last'.issued = 0 /\ UNCHANGED <<storeVars, pending>>
            ELSE /\ last'.issued = 1
                 /\ InFlight(World, id)' = InFlight(World, id) + 1]_vars

\* A forced call has issued a request for an id that is cached.
C7_Witness ==
  /\ last.op = "fetchSourceConnections" /\ last.force /\ last.issued = 1
  /\ HasEntry(World, last.key) /\ InFlight(World, last.key) = 1

\* C8: when the request of a fetchSourceConnections(id, ...) call fails, the
\* cache entry for id is overwritten with the empty sequence, the loading flag
\* for id is set to false and the call returns the empty sequence.
C8_FailureEmptiesEntry ==
  [][\A id \in CollectionIds :
       (last'.op = "sourceConnectionsSettled" /\ last'.failed /\ last'.key = id)
         => /\ HasEntry(World, id)'
            /\ sourceConnections'[id] = <<>>
            /\ id \in DOMAIN sourceConnectionsLoading'
            /\ sourceConnectionsLoading'[id] = FALSE
            /\ last'.ret = Returned(<<>>)]_vars

\* A request for an id has failed.
C8_Witness ==
  /\ last.op = "sourceConnectionsSettled" /\ last.failed
  /\ last.ret = Returned(<<>>) /\ sourceConnections[last.key] = <<>>
  /\ ~LoadingFlag(World, last.key)

\* C9: in the state immediately after clearCollections(), whatever requests are
\* in flight, collections is empty, isLoading is false, error is null,
\* sourceConnections and sourceConnectionsLoading have no entries, and the next
\* fetchCollections call, forced or not, issues a request.
C9_ClearResets ==
  /\ [](last.op = "clearCollections"
          => /\ collections = <<>>
             /\ isLoading = FALSE
             /\ error = Null
             /\ DOMAIN sourceConnections = {}
             /\ DOMAIN sourceConnectionsLoading = {}
             /\ \A f \in BOOLEAN : fetchCollections(World, f).issued)
  /\ [][(last.op = "clearCollections" /\ last'.op = "fetchCollections")
          => last'.issued = 1 /\ isLoading']_vars

\* The store has been cleared while a request was in flight.
C9_Witness ==
  /\ last.op = "clearCollections"
  /\ BagCardinality(pending) > 0
  /\ collections = <<>> /\ ~isLoading

\* C10: every delivery of a created, updated or deleted event starts one
\* fetchCollections(true) per subscription that has not been unsubscribed, and
\* each issues a /collections request whatever the cache and the loading flag
\* are; an unsubscribed subscription has no listener left.
C10_EventsForceRefresh ==
  /\ [](\A h \in subscribed, e \in CollectionEvents :
           <<h, e>> \in listeners <=> h \notin unsubscribed)
  /\ [][last'.op = "emit"
          => /\ last'.issued = Cardinality(subscribed \ unsubscribed)
             /\ InFlight(World, COLLECTIONS_URL)'
                  = InFlight(World, COLLECTIONS_URL) + last'.issued
             /\ (last'.issued > 0 => isLoading')]_vars

\* An event has started a refresh although the cache is non-empty and a
\* request was in flight already.
C10_Witness ==
  /\ last.op = "emit" /\ last.issued > 0
  /\ Len(collections) > 0
  /\ InFlight(World, COLLECTIONS_URL) > last.issued

\* C11: every fetchCollections and fetchSourceConnections call whose request
\* settles, by success, non-ok response or thrown error, ends by returning a
\* sequence to its caller; and a call issues at most one request: the part
\* before the await issues one request and stays suspended or issues none and
\* returns, and the part after the await issues none.
C11_SettledCallReturnsOnce ==
  [][/\ (last'.op \in {"collectionsSettled", "sourceConnectionsSettled"}
          => /\ last'.ret # NoRet
             /\ Len(last'.ret) = 1
             /\ last'.ret[1] \in Payloads
             /\ BagCardinality(pending') = BagCardinality(pending) - 1)
     /\ (last'.op \in {"fetchCollections", "fetchSourceConnections"}
          => /\ last'.issued \in {0, 1}
             /\ BagCardinality(pending') = BagCardinality(pending) + last'.issued
             /\ (last'.ret = NoRet <=> last'.issued = 1))]_vars

\* A /collections request has failed with nothing cached: the call has
\* returned the empty sequence and no request is left in flight.
C11_Witness ==
  /\ last.op = "collectionsSettled" /\ last.failed
  /\ last.ret = Returned(<<>>) /\ collections = <<>>
  /\ pending = EmptyBag

\* C12: the in-flight guard of fetchSourceConnections is per key: while
\* sourceConnectionsLoading[k] is true no call for k, forced or not, issues a
\* request or changes anything; and a call for k whose own flag is not true
\* issues a request for k when it is forced or k has no entry, whatever the
\* flags of the other ids are.
C12_GuardIsPerKey ==
  [][\A k \in CollectionIds :
       (last'.op = "fetchSourceConnections" /\ last'.key = k)
         => /\ LoadingFlag(World, k)
                 => last'.issued = 0 /\ UNCHANGED <<storeVars, pending>>
            /\ (~LoadingFlag(World, k) /\ (last'.force \/ ~HasEntry(World, k)))
                 => /\ last'.issued = 1
                    /\ InFlight(World, k)' = InFlight(World, k) + 1
                    /\ LoadingFlag(World, k)']_vars

\* A call has issued a request for one id while the request for another id
\* was in flight under its loading flag.
C12_Witness ==
  /\ last.op = "fetchSourceConnections" /\ last.issued = 1
  /\ \E k \in CollectionIds \ {last.key} :
        LoadingFlag(World, k) /\ InFlight(World, k) = 1

\* C13 (as stated): while a request for a cache key is in flight, every step
\* in which no request for that key settles leaves the in-flight flag of the
\* key set and issues no request for it, and a fetch call for the key in that
\* step returns the cached data.
C13_UnsettledKeepsFlag ==
  [][\A k \in Keys :
       (/\ InFlight(World, k) > 0
        /\ ~(last'.op \in {"collectionsSettled", "sourceConnectionsSettled"}
               /\ last'.key = k))
         => /\ Loading(World, k)'
            /\ InFlight(World, k)' = InFlight(World, k)
            /\ (last'.op \in {"fetchCollections", "fetchSourceConnections"}
                  /\ last'.key = k)
                 => last'.ret = Returned(Cached(World, k))]_vars

\* C13 (amended): the in-flight flag of a key, once set, remains set through
\* every step that is neither clearCollections() nor the settlement of a
\* request for that key; while it is set, every fetchSourceConnections call
\* for the key, forced or not, and every fetchCollections call without force
\* refresh issues no request, changes nothing and returns the currently
\* cached data, whereas a forced fetchCollections issues a further request.
C13_FlagHoldsUntilSettledOrCleared ==
  [][\A k \in Keys :
       Loading(World, k)
         => /\ (/\ last'.op # "clearCollections"
                 /\ ~(last'.op \in {"collectionsSettled", "sourceConnectionsSettled"}
                        /\ last'.key = k))
                 => Loading(World, k)' /\ InFlight(World, k)' >= InFlight(World, k)
            /\ (/\ last'.op \in {"fetchCollections", "fetchSourceConnections"}
                 /\ last'.key = k
                 /\ ~(k = COLLECTIONS_URL /\ last'.force))
                 => /\ last'.issued = 0
                    /\ last'.ret = Returned(Cached(World, k))
                    /\ UNCHANGED <<storeVars, pending>>
            /\ (last'.op = "fetchCollections" /\ last'.key = k /\ last'.force)
                 => /\ last'.issued = 1
                    /\ InFlight(World, k)' = InFlight(World, k) + 1]_vars

\* A forced fetchSourceConnections call has been held back by the flag of a
\* request that has not settled, and has returned the non-empty cached entry.
C13_Witness ==
  /\ last.op = "fetchSourceConnections" /\ last.force /\ last.issued = 0
  /\ LoadingFlag(World, last.key) /\ InFlight(World, last.key) = 1
  /\ HasEntry(World, last.key)
  /\ sourceConnections[last.key] # <<>>
  /\ last.ret = Returned(sourceConnections[last.key])

\* C14 (as stated): after a failed request of fetchCollections or of
\* fetchSourceConnections has settled, error is non-null.
C14_FailureSetsError ==
  (last.op \in {"collectionsSettled", "sourceConnectionsSettled"} /\ last.failed)
    => error # Null

\* C14 (amended): a failure of either kind of a /collections request sets
\* error to the message built from the failure; a failure of either kind of a
\* source-connections request leaves error as it was.
C14_OnlyCollectionsFailureSetsError ==
  [][/\ (last'.op = "collectionsSettled" /\ last'.failed)
          => error' \in {FailedToLoad(t) : t \in ErrorTexts}
                          \cup {AnErrorOccurred(t) : t \in ErrorTexts}
     /\ (last'.op = "sourceConnectionsSettled" /\ last'.failed)
          => error' = error]_vars

\* A source-connections request has failed and error is null.
C14_Witness ==
  /\ last.op = "sourceConnectionsSettled" /\ last.failed
  /\ error = Null
  /\ HasEntry(World, last.key) /\ sourceConnections[last.key] = <<>>

\* C15: the two fetch operations have disjoint footprints: no step of
\* fetchCollections (a call, an event-triggered refresh or a settlement)
\* changes sourceConnections or sourceConnectionsLoading, and no step of
\* fetchSourceConnections(k, ...) changes collections, isLoading, error or the
\* entry or the flag of any other id, in whatever order requests settle.
C15_DisjointFootprints ==
  [][/\ last'.op \in {"fetchCollections", "collectionsSettled", "emit"}
          => UNCHANGED <<sourceConnections, sourceConnectionsLoading>>
     /\ \A k \in CollectionIds :
          (last'.op \in {"fetchSourceConnections", "sourceConnectionsSettled"}
             /\ last'.key = k)
            => /\ UNCHANGED <<collections, isLoading, error>>
               /\ \A j \in CollectionIds \ {k} :
                    /\ (j \in DOMAIN sourceConnections')
                         <=> (j \in DOMAIN sourceConnections)
                    /\ (j \in DOMAIN sourceConnections)
                         => sourceConnections'[j] = sourceConnections[j]
                    /\ (j \in DOMAIN sourceConnectionsLoading')
                         <=> (j \in DOMAIN sourceConnectionsLoading)
                    /\ (j \in DOMAIN sourceConnectionsLoading)
                         => sourceConnectionsLoading'[j] = sourceConnectionsLoading[j]]_vars

\* The request for one id has settled while the request for another id is
\* still in flight under its loading flag.
C15_Witness ==
  /\ last.op = "sourceConnectionsSettled" /\ HasEntry(World, last.key)
  /\ \E j \in CollectionIds \ {last.key} :
        LoadingFlag(World, j) /\ InFlight(World, j) = 1 /\ ~HasEntry(World, j)

\* C16 (as stated): in every reachable state, if a /collections request is in
\* flight then isLoading is true, and if a request for a collection id is in
\* flight then the loading flag of the id is true.
C16_InFlightImpliesLoading ==
  \A k \in Keys : InFlight(World, k) > 0 => Loading(World, k)

\* C16 (amended): in every reachable state a loading flag that is true has a
\* request for its key in flight; and a key with a request in flight has its
\* flag true unless its guard has been bypassed, that is unless, since the key
\* last had no request in flight, a forced fetchCollections issued a request
\* while one was in flight or clearCollections() ran while one was in flight.
C16_LoadingTracksGuardedInFlight ==
  /\ \A k \in Keys : Loading(World, k) => InFlight(World, k) > 0
  /\ \A k \in Keys \ unguarded : InFlight(World, k) > 0 => Loading(World, k)

\* A /collections request is in flight with isLoading false after a clear,
\* and a request for an id is in flight under its loading flag.
C16_Witness ==
  /\ COLLECTIONS_URL \in unguarded
  /\ InFlight(World, COLLECTIONS_URL) > 0 /\ ~isLoading
  /\ \E id \in CollectionIds \ unguarded :
        InFlight(World, id) = 1 /\ LoadingFlag(World, id)

\* C17: when every issued request eventually settles and the fetch calls,
\* event deliveries and clears come to an end (from some point on every step
\* is the settlement of a request), eventually isLoading is false and every
\* sourceConnectionsLoading entry is false or absent, and they remain so.
C17_EventuallyNotLoading ==
  <>[][BagCardinality(pending') < BagCardinality(pending)]_vars
    => <>[](~isLoading /\ \A id \in CollectionIds : ~LoadingFlag(World, id))

\* The list and both ids have been fetched and every request has settled: no
\* flag is set and the flags of both ids are present and false.
C17_Witness ==
  /\ pending = EmptyBag /\ ~isLoading /\ Len(collections) > 0
  /\ \A id \in CollectionIds :
        id \in DOMAIN sourceConnectionsLoading /\ ~sourceConnectionsLoading[id]

\* C18: in every reachable state collections equals the payload of the most
\* recent event among the successful /collections settlements and the
\* clearCollections() calls (empty for a clear and initially): the cache is
\* overwritten, and with overlapping requests the response that settles last
\* wins.
C18_CollectionsIsLastWritten ==
  collections = trail.written

\* Two /collections requests overlapped: one has settled with a non-empty
\* payload, which is the cache, while the other is still in flight.
C18_Witness ==
  /\ trail.settled = "ok" /\ trail.written # <<>>
  /\ collections = trail.written
  /\ InFlight(World, COLLECTIONS_URL) = 1

\* C19 (as stated): in every reachable state in which the most recently
\* settled /collections request succeeded, error is null.
C19_SuccessMeansNoError ==
  trail.settled = "ok" => error = Null

\* C19 (amended): in every reachable state error is non-null exactly when a
\* /collections request has failed since a /collections request was last
\* issued and since the store was last cleared; so after a success error is
\* null unless an overlapping request has failed in the meantime.
C19_ErrorIsFailureSinceIssue ==
  /\ error # Null <=> trail.failed
  /\ (trail.settled = "ok" /\ ~trail.failed) => error = Null

\* Two forced refreshes overlapped: one failed, then the other succeeded, and
\* the message of the failure is still in error.
C19_Witness ==
  /\ trail.settled = "ok" /\ trail.failed
  /\ error # Null /\ ~isLoading
  /\ InFlight(World, COLLECTIONS_URL) = 0

\* C20 (as stated): after clearCollections(), as long as no fetch started
\* after the clear has issued a request (so that none can have settled),
\* collections is empty and sourceConnections has no entries, whatever
\* requests issued before the clear settle.
C20_ClearNotUndoneByOlderRequest ==
  (trail.cleared /\ ~trail.started)
    => (collections = <<>> /\ DOMAIN sourceConnections = {})

\* C20 (amended): after clearCollections(), collections is empty and
\* sourceConnections has no entries as long as no request has settled since
\* the clear, whether it was issued after the clear or before it.
C20_ClearedUntilAnyRequestSettles ==
  (trail.cleared /\ ~trail.landed)
    => (collections = <<>> /\ DOMAIN sourceConnections = {})

\* After a clear no call has issued a request, and the requests that were in
\* flight at the clear have settled and repopulated both caches.
C20_Witness ==
  /\ trail.cleared /\ ~trail.started /\ trail.landed
  /\ collections # <<>> /\ DOMAIN sourceConnections # {}
  /\ pending = EmptyBag

====
